---------------------------- MODULE Spec2Model ----------------------------
(***************************************************************************)
(* Model of the logic-bearing parts of the Fuse admin shell:               *)
(*   - FuseSidebarComponent  (search-bar.component.ts, lines 51-492)       *)
(*   - FuseConfigService     (filter.pipe.ts, lines 13-124)                *)
(*   - FuseMatchMediaService (match-media.service.ts)                      *)
(*                                                                         *)
(* JavaScript values.  Fields the constructor never assigns hold the       *)
(* value undefined, so the three-valued fields are modelled as the strings *)
(* "undefined", "true", "false"; a JS condition `if (x)` is Truthy(x).     *)
(* Where the prose says "x = false" about such a field, the formulas read  *)
(* it as "x is not truthy", which is what the host bindings observe.       *)
(* Objects are functions from key names to values; a key that is absent    *)
(* is not in the DOMAIN.                                                   *)
(***************************************************************************)
EXTENDS Integers, Sequences, FiniteSets, TLC

VARIABLES
    \* ---- FuseSidebarComponent: inputs and DOM surroundings
    lockedOpen,                 \* @Input lockedOpen: "" when the attribute is not set
    align,                      \* @Input align
    nextElementSibling,         \* does elementRef.nativeElement have a next sibling
    previousElementSibling,     \* does it have a previous sibling
    \* ---- FuseSidebarComponent: fields
    opened,
    _folded,
    isLockedOpen,
    unfolded,
    _wasActive,
    _backdrop,                  \* element id, or NULL
    _onMediaChangeSubscription, \* "undefined" | "active" | "closed"
    \* ---- rendering host
    marginLeft,                 \* style.marginLeft of the next sibling ("" = no override)
    marginRight,                \* style.marginRight of the previous sibling
    attached,                   \* overlay elements attached to the sidebar's parent
    created,                    \* number of overlay elements created so far
    players,                    \* hide animations still playing, oldest first: the element each animates
    \* ---- FuseSidebarService registry, component lifecycle, last uncaught error
    registry,
    lifecycle,                  \* "constructed" | "initialized" | "destroyed"
    error,                      \* "none" | "TypeError"
    \* ---- ObservableMedia and FuseMatchMediaService
    mqAlias,                    \* the breakpoint alias ObservableMedia currently reports
    activeMediaQuery,
    onMediaChange,              \* current value of the BehaviorSubject
    emitted,                    \* the values the last media change passed to onMediaChange.next
    \* ---- FuseConfigService
    config,
    defaultConfig,
    onConfigChanged,            \* current value of the BehaviorSubject
    heap,                       \* the config objects alive: object id -> its own properties
    configRef,                  \* the object this.config refers to
    observers,                  \* subscribers of onConfigChanged, in subscription order
    subscribed,                 \* number of subscriptions made so far
    delivered,                  \* log of subscriber callbacks: [to |-> subscriber, value |-> config]
    received,                   \* the object each logged callback was handed
    \* ---- FuseNavigationService
    flatNavigation,             \* the accumulator field
    returned,                   \* what the last getFlatNavigation call returned
    navCalls,                   \* the arguments of the calls made so far
    \* ---- the handler that ran last
    lastOp

sidebarVars == <<lockedOpen, align, nextElementSibling, previousElementSibling,
                 opened, _folded, isLockedOpen, unfolded, _wasActive, _backdrop,
                 _onMediaChangeSubscription, marginLeft, marginRight, attached,
                 created, players, registry, lifecycle, error>>
mediaVars == <<mqAlias, activeMediaQuery, onMediaChange, emitted>>
configVars == <<config, defaultConfig, onConfigChanged, heap, configRef>>
streamVars == <<observers, subscribed, delivered, received>>
navVars == <<flatNavigation, returned, navCalls>>
vars == <<sidebarVars, mediaVars, configVars, streamVars, navVars, lastOp>>

---------------------------------------------------------------------------
(* Bounds *)

MaxElements == 2        \* overlay elements created in one run
MaxPlayers == 2         \* hide animations playing at once
MaxPartialKeys == 1     \* leaf keys one setConfig argument mentions
MaxObservers == 2       \* subscriptions to onConfigChanged in one run
MaxDelivered == 5       \* subscriber callbacks logged in one run
MaxCalls == 2           \* getFlatNavigation calls on one service instance

---------------------------------------------------------------------------
(* JavaScript values *)

NULL == 0

Truthy(v) == v = "true"

JSBool(b) == IF b THEN "true" ELSE "false"

EmptyObj == [k \in {} |-> 0]

\* {...a, ...b}
Spread(a, b) ==
    [k \in (DOMAIN a) \cup (DOMAIN b) |-> IF k \in DOMAIN b THEN b[k] ELSE a[k]]

\* o[k] spread into an object literal: an absent (undefined) value spreads nothing
Sub(o, k) == IF k \in DOMAIN o THEN o[k] ELSE EmptyObj

---------------------------------------------------------------------------
(* FuseConfigService (filter.pipe.ts) *)

DEFAULT_CONFIG ==
    [layout           |-> [navigation       |-> "left",
                           navigationFolded |-> FALSE,
                           toolbar          |-> "below",
                           footer           |-> "below",
                           mode             |-> "fullwidth"],
     colorClasses     |-> [toolbar |-> "mat-white-500-bg",
                           navbar  |-> "mat-fuse-dark-700-bg",
                           footer  |-> "mat-fuse-dark-900-bg"],
     customScrollbars |-> TRUE,
     routerAnimation  |-> "fadeIn"]

\* A custom configuration handed to forRoot: the shape of DEFAULT_CONFIG, other values
CustomConfig ==
    [layout           |-> [navigation       |-> "top",
                           navigationFolded |-> TRUE,
                           toolbar          |-> "above",
                           footer           |-> "none",
                           mode             |-> "boxed"],
     colorClasses     |-> [toolbar |-> "mat-fuse-dark-700-bg",
                           navbar  |-> "mat-white-500-bg",
                           footer  |-> "mat-white-500-bg"],
     customScrollbars |-> TRUE,
     routerAnimation  |-> "slideUp"]

\* The optional FUSE_CONFIG injection: <<>> when nothing is provided
Injections == {<<>>, <<DEFAULT_CONFIG>>, <<CustomConfig>>}

\* this.defaultConfig after the constructor ran
ConstructDefault(injected, mobile) ==
    LET d0 == IF injected # <<>> THEN injected[1] ELSE DEFAULT_CONFIG
    IN  IF mobile THEN Spread(d0, [customScrollbars |-> FALSE]) ELSE d0

\* this.config = {...this.defaultConfig}
ConstructConfig(injected, mobile) == Spread(EmptyObj, ConstructDefault(injected, mobile))

\* setConfig merging layout but taking colorClasses whole from the argument
setConfigLayoutOnly(cfg, partial) ==
    Spread(Spread(cfg, partial),
           [layout |-> Spread(Sub(cfg, "layout"), Sub(partial, "layout"))])

\* setConfig with a shallow merge only: {...this.config, ...config}
setConfigShallow(cfg, partial) == Spread(cfg, partial)

\* The object literal assigned to this.config by setConfig(partial)
setConfig(cfg, partial) ==
    Spread(Spread(Spread(cfg, partial),
                  [layout |-> Spread(Sub(cfg, "layout"), Sub(partial, "layout"))]),
           [colorClasses |-> Spread(Sub(cfg, "colorClasses"), Sub(partial, "colorClasses"))])

(* Object identity.  A config object holds its primitive properties and   *)
(* references to its layout and colorClasses objects; config and           *)
(* defaultConfig are what a reader sees through this.config and            *)
(* this.defaultConfig.  An object nothing refers to any more is dropped,   *)
(* and a new object takes the smallest id no remaining object holds.       *)

\* this.defaultConfig is assigned in the constructor only: the first object
defaultConfigRef == 1

NestedKeys == {"layout", "colorClasses"}

\* The object whose nested properties refer to the objects l and c
Shallow(value, l, c) ==
    [k \in DOMAIN value |->
        IF k = "layout" THEN l ELSE IF k = "colorClasses" THEN c ELSE value[k]]

\* The value read through the reference r
Deref(h, r) ==
    [k \in DOMAIN h[r] |-> IF k \in NestedKeys THEN h[h[r][k]] ELSE h[r][k]]

\* The objects reachable from the config objects in roots
Reach(h, roots) == UNION {{r, h[r].layout, h[r].colorClasses} : r \in roots}

NextFree(used) ==
    CHOOSE i \in 1..(Cardinality(used) + 1) :
        i \notin used /\ \A j \in 1..(i - 1) : j \in used

\* The heap after the constructor: this.config = {...this.defaultConfig} is a
\* new object that shares the default's layout and colorClasses objects
ConstructHeap(injected, mobile) ==
    LET d == ConstructDefault(injected, mobile)
        l == defaultConfigRef + 1
        c == defaultConfigRef + 2
    IN  (defaultConfigRef :> Shallow(d, l, c)) @@ (l :> d.layout) @@ (c :> d.colorClasses)
            @@ ((defaultConfigRef + 3) :> Shallow(d, l, c))

\* setConfig writing the merged values into the objects this.config refers to
assignConfigInPlace(h, ref, partial, held) ==
    LET value == setConfig(Deref(h, ref), partial)
        l == h[ref].layout
        c == h[ref].colorClasses
    IN  [ref |-> ref,
         heap |-> [id \in Reach(h, held \cup {ref}) |->
                      IF id = ref THEN Shallow(value, l, c)
                      ELSE IF id = l THEN value.layout
                      ELSE IF id = c THEN value.colorClasses
                      ELSE h[id]]]

\* this.config = {...}: the object literal of setConfig makes three new
\* objects; held are the config objects something else still refers to
assignConfig(h, ref, partial, held) ==
    LET value == setConfig(Deref(h, ref), partial)
        kept == Reach(h, held)
        top == NextFree(kept)
        l == NextFree(kept \cup {top})
        c == NextFree(kept \cup {top, l})
    IN  [ref |-> top,
         heap |-> [id \in kept \cup {top, l, c} |->
                      IF id = top THEN Shallow(value, l, c)
                      ELSE IF id = l THEN value.layout
                      ELSE IF id = c THEN value.colorClasses
                      ELSE h[id]]]

\* The config objects the service's default or a subscriber refers to
Held == {defaultConfigRef} \cup {received[i] : i \in 1..Len(received)}

\* next(value) calling the most recent subscriber first
BroadcastNewestFirst(obs, value) ==
    [i \in 1..Len(obs) |-> [to |-> obs[Len(obs) + 1 - i], value |-> value]]

\* BehaviorSubject.next(value): the callbacks it makes, in subscription order
Broadcast(obs, value) == [i \in 1..Len(obs) |-> [to |-> obs[i], value |-> value]]

\* The handler passing the whole default config instead of its layout
NavigationStartPartialWhole(dflt) == dflt

\* The argument the router.events handler passes on NavigationStart
NavigationStartPartial(dflt) == [layout |-> dflt.layout]

\* setConfig(partial) as called by a component: assign this.config, then next(this.config)
SetConfig(partial) ==
    /\ Len(delivered) + Len(observers) <= MaxDelivered
    /\ LET a == assignConfig(heap, configRef, partial, Held)
       IN  /\ heap' = a.heap
           /\ configRef' = a.ref
    /\ config' = Deref(heap', configRef')
    /\ defaultConfig' = Deref(heap', defaultConfigRef)
    /\ onConfigChanged' = config'
    /\ delivered' = delivered \o Broadcast(observers, config')
    /\ received' = received \o [i \in 1..Len(observers) |-> configRef']
    /\ lastOp' = "setConfig"
    /\ UNCHANGED <<observers, subscribed, sidebarVars, mediaVars, navVars>>

\* router.events handler, event instanceof NavigationStart
NavigationStart ==
    /\ Len(delivered) + Len(observers) <= MaxDelivered
    /\ LET a == assignConfig(heap, configRef, NavigationStartPartial(defaultConfig), Held)
       IN  /\ heap' = a.heap
           /\ configRef' = a.ref
    /\ config' = Deref(heap', configRef')
    /\ defaultConfig' = Deref(heap', defaultConfigRef)
    /\ onConfigChanged' = config'
    /\ delivered' = delivered \o Broadcast(observers, config')
    /\ received' = received \o [i \in 1..Len(observers) |-> configRef']
    /\ lastOp' = "navigationStart"
    /\ UNCHANGED <<observers, subscribed, sidebarVars, mediaVars, navVars>>

\* onConfigChanged.subscribe(callback): a BehaviorSubject calls back at once with its value
Subscribe ==
    /\ subscribed < MaxObservers
    /\ Len(delivered) < MaxDelivered
    /\ subscribed' = subscribed + 1
    /\ observers' = Append(observers, subscribed')
    /\ delivered' = Append(delivered, [to |-> subscribed', value |-> onConfigChanged])
    /\ received' = Append(received, configRef)
    /\ lastOp' = "subscribe"
    /\ UNCHANGED <<configVars, sidebarVars, mediaVars, navVars>>

\* Subscription.unsubscribe() of subscriber o (main.component.ts ngOnDestroy)
Unsubscribe(o) ==
    /\ \E i \in 1..Len(observers) : observers[i] = o
    /\ observers' = SelectSeq(observers, LAMBDA x : x # o)
    /\ lastOp' = "unsubscribe"
    /\ UNCHANGED <<subscribed, delivered, received, configVars, sidebarVars, mediaVars, navVars>>

(* Arguments of setConfig *)

NavigationVals == {"left", "top"}
ToolbarVals == {"below", "above"}
FooterVals == {"below", "none"}
ModeVals == {"fullwidth", "boxed"}
ColorVals == {"mat-white-500-bg", "mat-fuse-dark-700-bg"}
RouterAnimationVals == {"fadeIn", "slideUp"}

LayoutKeys == {"navigation", "navigationFolded", "toolbar", "footer", "mode"}
ColorKeys == {"toolbar", "navbar", "footer"}
TopKeys == {"layout", "colorClasses", "customScrollbars", "routerAnimation"}

\* Partial configs that mention exactly one leaf key
Leaves ==
    {[layout |-> [navigation |-> v]] : v \in NavigationVals}
    \cup {[layout |-> [navigationFolded |-> v]] : v \in BOOLEAN}
    \cup {[layout |-> [toolbar |-> v]] : v \in ToolbarVals}
    \cup {[layout |-> [footer |-> v]] : v \in FooterVals}
    \cup {[layout |-> [mode |-> v]] : v \in ModeVals}
    \cup {[colorClasses |-> [toolbar |-> v]] : v \in ColorVals}
    \cup {[colorClasses |-> [navbar |-> v]] : v \in ColorVals}
    \cup {[colorClasses |-> [footer |-> v]] : v \in ColorVals}
    \cup {[customScrollbars |-> v] : v \in BOOLEAN}
    \cup {[routerAnimation |-> v] : v \in RouterAnimationVals}

\* The partial mentioning the keys of a and of b (b wins); used to enumerate arguments only
Join(a, b) ==
    [k \in (DOMAIN a) \cup (DOMAIN b) |->
        IF k \in {"layout", "colorClasses"} THEN Spread(Sub(a, k), Sub(b, k))
        ELSE IF k \in DOMAIN b THEN b[k] ELSE a[k]]

RECURSIVE PartialsUpTo(_)
PartialsUpTo(n) ==
    IF n = 0 THEN {EmptyObj, [layout |-> EmptyObj], [colorClasses |-> EmptyObj]}
    ELSE LET P == PartialsUpTo(n - 1) IN P \cup {Join(p, l) : p \in P, l \in Leaves}

Partials == PartialsUpTo(MaxPartialKeys)

\* The partials the sidebar specification uses: they switch layout.navigationFolded
FoldPartials == {[layout |-> [navigationFolded |-> v]] : v \in BOOLEAN}

\* The partials the broadcast specification uses
StreamPartials == {[layout |-> [mode |-> "boxed"]], [colorClasses |-> [toolbar |-> "mat-fuse-dark-700-bg"]]}

---------------------------------------------------------------------------
(* ObservableMedia and FuseMatchMediaService (match-media.service.ts) *)

\* Breakpoint aliases ObservableMedia reports
MediaAliases == {"sm", "lg", "xl"}

\* The breakpoint queries a sidebar may name in lockedOpen ("" = attribute not set)
LockedOpenInputs == {"", "gt-md"}

\* observableMedia.isActive(query) while ObservableMedia reports alias
isActive(query, alias) ==
    IF query = "gt-md" THEN alias \in {"lg", "xl"} ELSE query = alias

---------------------------------------------------------------------------
(* FuseSidebarComponent (search-bar.component.ts) *)
(* The handlers are operators on the record Self of the component's fields *)
(* and of the part of the rendering host they touch; an action installs    *)
(* the record a handler returns.                                           *)

name == "navbar"

Self ==
    [opened |-> opened, _folded |-> _folded, isLockedOpen |-> isLockedOpen,
     unfolded |-> unfolded, _wasActive |-> _wasActive, _backdrop |-> _backdrop,
     _onMediaChangeSubscription |-> _onMediaChangeSubscription,
     marginLeft |-> marginLeft, marginRight |-> marginRight,
     attached |-> attached, created |-> created, players |-> players,
     registry |-> registry, error |-> error]

Install(s) ==
    /\ opened' = s.opened
    /\ _folded' = s._folded
    /\ isLockedOpen' = s.isLockedOpen
    /\ unfolded' = s.unfolded
    /\ _wasActive' = s._wasActive
    /\ _backdrop' = s._backdrop
    /\ _onMediaChangeSubscription' = s._onMediaChangeSubscription
    /\ marginLeft' = s.marginLeft
    /\ marginRight' = s.marginRight
    /\ attached' = s.attached
    /\ created' = s.created
    /\ players' = s.players
    /\ registry' = s.registry
    /\ error' = s.error
    /\ UNCHANGED <<lockedOpen, align, nextElementSibling, previousElementSibling>>

\* The model follows runs that stay within the bounds
WithinBounds(s) == s.created <= MaxElements /\ Len(s.players) <= MaxPlayers

\* The setter never removing the style it set
setFoldedKeepStyle(s, value) ==
    IF ~s.opened THEN s
    ELSE LET s1 == [s EXCEPT !._folded = JSBool(value)]
         IN  IF align = "left"
             THEN IF ~nextElementSibling \/ ~value THEN s1
                  ELSE [s1 EXCEPT !.marginLeft = "64px"]
             ELSE IF ~previousElementSibling \/ ~value THEN s1
                  ELSE [s1 EXCEPT !.marginRight = "64px"]

\* The setter without the test that the sidebar is open
setFoldedWhileClosed(s, value) ==
    LET s1 == [s EXCEPT !._folded = JSBool(value)]
    IN  IF align = "left"
        THEN IF ~nextElementSibling THEN s1
             ELSE [s1 EXCEPT !.marginLeft = IF value THEN "64px" ELSE ""]
        ELSE IF ~previousElementSibling THEN s1
             ELSE [s1 EXCEPT !.marginRight = IF value THEN "64px" ELSE ""]

\* set folded(value)
setFolded(s, value) ==
    IF ~s.opened THEN s
    ELSE LET s1 == [s EXCEPT !._folded = JSBool(value)]
         IN  IF align = "left"
             THEN IF ~nextElementSibling THEN s1
                  ELSE [s1 EXCEPT !.marginLeft = IF value THEN "64px" ELSE ""]
             ELSE IF ~previousElementSibling THEN s1
                  ELSE [s1 EXCEPT !.marginRight = IF value THEN "64px" ELSE ""]

fold(s) == IF Truthy(s._folded) THEN s ELSE setFolded(s, TRUE)

unfold(s) == IF ~Truthy(s._folded) THEN s ELSE setFolded(s, FALSE)

\* toggleFold folding whatever the state
toggleFoldAlwaysFold(s) == fold(s)

toggleFold(s) == IF Truthy(s._folded) THEN unfold(s) ELSE fold(s)

\* The enter animation has no completion callback, so it leaves no entry in players
showBackdrop(s) ==
    LET e == s.created + 1
    IN  [s EXCEPT !._backdrop = e, !.created = e, !.attached = @ \cup {e}]

\* The leave animation is created on the backdrop tracked at the call
hideBackdrop(s) ==
    IF s._backdrop = NULL THEN s
    ELSE [s EXCEPT !.players = Append(@, s._backdrop)]

\* The onDone callback of a leave animation: it reads this._backdrop when it runs
onDone(s) ==
    IF s._backdrop = NULL THEN s
    ELSE IF s._backdrop \notin s.attached
         THEN [s EXCEPT !.error = "TypeError"]     \* parentNode is null
         ELSE [s EXCEPT !.attached = @ \ {s._backdrop}, !._backdrop = NULL]

open(s) ==
    IF s.opened \/ Truthy(s.isLockedOpen) THEN s
    ELSE [showBackdrop(s) EXCEPT !.opened = TRUE]

\* close() without the isLockedOpen test
closeWhileLocked(s) ==
    IF ~s.opened THEN s
    ELSE [hideBackdrop(s) EXCEPT !.opened = FALSE]

close(s) ==
    IF ~s.opened \/ Truthy(s.isLockedOpen) THEN s
    ELSE [hideBackdrop(s) EXCEPT !.opened = FALSE]

toggleOpen(s) == IF s.opened THEN close(s) ELSE open(s)

onMouseEnter(s) == IF ~Truthy(s._folded) THEN s ELSE [s EXCEPT !.unfolded = "true"]

\* onMouseLeave without the test that the sidebar is folded
onMouseLeaveAlways(s) == [s EXCEPT !.unfolded = "false"]

onMouseLeave(s) == IF ~Truthy(s._folded) THEN s ELSE [s EXCEPT !.unfolded = "false"]

\* The callback without the test against the recorded status
onMediaChangeHandlerNoDebounce(s, active, navigationFolded) ==
    IF active
    THEN LET s1 == [s EXCEPT !.isLockedOpen = "true", !.opened = TRUE]
             s2 == IF navigationFolded THEN fold(s1) ELSE s1
         IN  [hideBackdrop(s2) EXCEPT !._wasActive = "true"]
    ELSE LET s1 == [s EXCEPT !.isLockedOpen = "false"]
         IN  [unfold(s1) EXCEPT !.opened = FALSE, !._wasActive = "false"]

\* The callback setting the lock without forcing the sidebar open
onMediaChangeHandlerLockOnly(s, active, navigationFolded) ==
    IF s._wasActive = JSBool(active) THEN s
    ELSE IF active
         THEN LET s1 == [s EXCEPT !.isLockedOpen = "true"]
                  s2 == IF navigationFolded THEN fold(s1) ELSE s1
              IN  [hideBackdrop(s2) EXCEPT !._wasActive = "true"]
         ELSE LET s1 == [s EXCEPT !.isLockedOpen = "false"]
              IN  [unfold(s1) EXCEPT !.opened = FALSE, !._wasActive = "false"]

\* The callback folding on every activation, whatever the config says
onMediaChangeHandlerAlwaysFold(s, active, navigationFolded) ==
    IF s._wasActive = JSBool(active) THEN s
    ELSE IF active
         THEN LET s1 == [s EXCEPT !.isLockedOpen = "true", !.opened = TRUE]
              IN  [hideBackdrop(fold(s1)) EXCEPT !._wasActive = "true"]
         ELSE LET s1 == [s EXCEPT !.isLockedOpen = "false"]
              IN  [unfold(s1) EXCEPT !.opened = FALSE, !._wasActive = "false"]

\* The callback closing the sidebar before it unfolds it on deactivation
onMediaChangeHandlerCloseFirst(s, active, navigationFolded) ==
    IF s._wasActive = JSBool(active) THEN s
    ELSE IF active
         THEN LET s1 == [s EXCEPT !.isLockedOpen = "true", !.opened = TRUE]
                  s2 == IF navigationFolded THEN fold(s1) ELSE s1
              IN  [hideBackdrop(s2) EXCEPT !._wasActive = "true"]
         ELSE LET s1 == [s EXCEPT !.isLockedOpen = "false", !.opened = FALSE]
              IN  [unfold(s1) EXCEPT !._wasActive = "false"]

\* The callback _setupLockedOpen subscribes to onMediaChange; active is
\* observableMedia.isActive(this.lockedOpen), navigationFolded the config's flag
onMediaChangeHandler(s, active, navigationFolded) ==
    IF s._wasActive = JSBool(active) THEN s
    ELSE IF active
         THEN LET s1 == [s EXCEPT !.isLockedOpen = "true", !.opened = TRUE]
                  s2 == IF navigationFolded THEN fold(s1) ELSE s1
              IN  [hideBackdrop(s2) EXCEPT !._wasActive = "true"]
         ELSE LET s1 == [s EXCEPT !.isLockedOpen = "false"]
              IN  [unfold(s1) EXCEPT !.opened = FALSE, !._wasActive = "false"]

\* FuseSidebarService.register / unregister
register(reg, n) == reg \cup {n}

unregister(reg, n) == reg \ {n}

\* _setupLockedOpen: subscribing to a BehaviorSubject runs the callback at once
setupLockedOpen(s, active, navigationFolded) ==
    IF lockedOpen = "" THEN s
    ELSE [onMediaChangeHandler([s EXCEPT !._wasActive = "false"], active, navigationFolded)
             EXCEPT !._onMediaChangeSubscription = "active"]

ngOnInit(s, active, navigationFolded) ==
    setupLockedOpen([s EXCEPT !.registry = register(@, name)], active, navigationFolded)

\* The last statement calls unsubscribe() on a field only _setupLockedOpen assigns
ngOnDestroy(s) ==
    LET s1 == IF Truthy(s._folded) THEN unfold(s) ELSE s
        s2 == [s1 EXCEPT !.registry = unregister(@, name)]
    IN  IF s2._onMediaChangeSubscription = "undefined"
        THEN [s2 EXCEPT !.error = "TypeError"]
        ELSE [s2 EXCEPT !._onMediaChangeSubscription = "closed"]

\* What a method call on the sidebar does to the state: r is the record the handler returns
Call(r, op) ==
    /\ lifecycle = "initialized"
    /\ WithinBounds(r)
    /\ Install(r)
    /\ lastOp' = op
    /\ UNCHANGED <<lifecycle, mediaVars, configVars, streamVars, navVars>>

Open == Call(open(Self), "open")

Close == Call(close(Self), "close")

ToggleOpen == Call(toggleOpen(Self), "toggleOpen")

Fold == Call(fold(Self), "fold")

Unfold == Call(unfold(Self), "unfold")

ToggleFold == Call(toggleFold(Self), "toggleFold")

\* The template binds the folded input
FoldedInput(value) == Call(setFolded(Self, value), "setFolded")

MouseEnter == Call(onMouseEnter(Self), "onMouseEnter")

MouseLeave == Call(onMouseLeave(Self), "onMouseLeave")

\* The click listener showBackdrop adds to the overlay element e
BackdropClick(e) ==
    /\ e \in attached
    /\ Call(close(Self), "backdropClick")

\* The oldest playing leave animation finishes and its onDone callback runs
AnimationDone ==
    /\ players # <<>>
    /\ Install(onDone([Self EXCEPT !.players = Tail(@)]))
    /\ lastOp' = "onDone"
    /\ UNCHANGED <<lifecycle, mediaVars, configVars, streamVars, navVars>>

NgOnInit ==
    /\ lifecycle = "constructed"
    /\ LET r == ngOnInit(Self, isActive(lockedOpen, mqAlias), config.layout.navigationFolded)
       IN  WithinBounds(r) /\ Install(r)
    /\ lifecycle' = "initialized"
    /\ lastOp' = "ngOnInit"
    /\ UNCHANGED <<mediaVars, configVars, streamVars, navVars>>

NgOnDestroy ==
    /\ lifecycle = "initialized"
    /\ Install(ngOnDestroy(Self))
    /\ lifecycle' = "destroyed"
    /\ lastOp' = "ngOnDestroy"
    /\ UNCHANGED <<mediaVars, configVars, streamVars, navVars>>

\* The subscriber forwarding every change it is told of
mediaSubscriberForwardAll(amq, alias) ==
    [activeMediaQuery |-> alias, emitted |-> <<alias>>]

\* FuseMatchMediaService's subscriber to ObservableMedia: the new activeMediaQuery
\* and the values passed to onMediaChange.next
mediaSubscriber(amq, alias) ==
    IF amq # alias
    THEN [activeMediaQuery |-> alias, emitted |-> <<alias>>]
    ELSE [activeMediaQuery |-> amq, emitted |-> <<>>]

\* ObservableMedia reports alias; the service forwards it to the sidebar's callback
MediaChange(alias) ==
    LET m == mediaSubscriber(activeMediaQuery, alias)
        r == onMediaChangeHandler(Self, isActive(lockedOpen, alias), config.layout.navigationFolded)
    IN  /\ mqAlias' = alias
        /\ activeMediaQuery' = m.activeMediaQuery
        /\ onMediaChange' = IF m.emitted # <<>> THEN m.emitted[1] ELSE onMediaChange
        /\ emitted' = m.emitted
        /\ IF m.emitted # <<>> /\ _onMediaChangeSubscription = "active"
           THEN WithinBounds(r) /\ Install(r) /\ lastOp' = "onMediaChange"
           ELSE UNCHANGED sidebarVars /\ lastOp' = "mediaChange"
        /\ UNCHANGED <<lifecycle, configVars, streamVars, navVars>>

---------------------------------------------------------------------------
(* FuseNavigationService (navigation.service.ts) *)
(* A navigation node is an object with a type and, depending on the node,  *)
(* title, url, icon and children; JS false is written "false".             *)

\* navItem.icon || false
iconOrFalse(navItem) ==
    IF "icon" \in DOMAIN navItem /\ navItem.icon # "" THEN navItem.icon ELSE "false"

\* The record getFlatNavigation pushes for an item
flatItem(navItem) ==
    [title |-> navItem.title, type |-> navItem.type, icon |-> iconOrFalse(navItem), url |-> navItem.url]

\* A copy of the traversal, for the variant below
RECURSIVE flattenInto(_, _)
flattenInto(flat, navigation) ==
    IF navigation = <<>> THEN flat
    ELSE LET navItem == Head(navigation)
             flat1 == IF navItem.type = "item" THEN Append(flat, flatItem(navItem))
                      ELSE IF navItem.type \in {"collapse", "group"} /\ "children" \in DOMAIN navItem
                           THEN flattenInto(flat, navItem.children)
                           ELSE flat
         IN  flattenInto(flat1, Tail(navigation))

\* getFlatNavigation starting every call from an empty accumulator
getFlatNavigationFresh(flat, navigation) == flattenInto(<<>>, navigation)

\* getFlatNavigation descending into 'group' nodes only
RECURSIVE getFlatNavigationGroupsOnly(_, _)
getFlatNavigationGroupsOnly(flat, navigation) ==
    IF navigation = <<>> THEN flat
    ELSE LET navItem == Head(navigation)
             flat1 == IF navItem.type = "item" THEN Append(flat, flatItem(navItem))
                      ELSE IF navItem.type = "group" /\ "children" \in DOMAIN navItem
                           THEN getFlatNavigationGroupsOnly(flat, navItem.children)
                           ELSE flat
         IN  getFlatNavigationGroupsOnly(flat1, Tail(navigation))

\* getFlatNavigation(navigation) with this.flatNavigation = flat: the field afterwards,
\* which is also the value returned
RECURSIVE getFlatNavigation(_, _)
getFlatNavigation(flat, navigation) ==
    IF navigation = <<>> THEN flat
    ELSE LET navItem == Head(navigation)
             flat1 == IF navItem.type = "item" THEN Append(flat, flatItem(navItem))
                      ELSE IF navItem.type \in {"collapse", "group"} /\ "children" \in DOMAIN navItem
                           THEN getFlatNavigation(flat, navItem.children)
                           ELSE flat
         IN  getFlatNavigation(flat1, Tail(navigation))

\* A component calls getFlatNavigation(navigation) on the service
GetFlatNavigation(navigation) ==
    /\ Len(navCalls) < MaxCalls
    /\ flatNavigation' = getFlatNavigation(flatNavigation, navigation)
    /\ returned' = flatNavigation'
    /\ navCalls' = Append(navCalls, navigation)
    /\ lastOp' = "getFlatNavigation"
    /\ UNCHANGED <<sidebarVars, mediaVars, configVars, streamVars>>

(* Arguments of getFlatNavigation *)

ItemMail == [type |-> "item", title |-> "Mail", url |-> "/mail", icon |-> "email"]
ItemSample == [type |-> "item", title |-> "Sample", url |-> "/sample"]
ItemBlank == [type |-> "item", title |-> "Blank", url |-> "/blank", icon |-> ""]
ItemParent == [type |-> "item", title |-> "Parent", url |-> "/parent", children |-> <<ItemSample>>]
Divider == [type |-> "divider", title |-> "-", children |-> <<ItemMail>>]

Grouping(type, children) == [type |-> type, children |-> children]

Childless(type) == [type |-> type, title |-> "Empty"]

NavItems == {ItemMail, ItemSample, ItemBlank}

NavLeaves == NavItems \cup {ItemParent, Divider, Childless("group"), Childless("collapse")}

NavLeafLists ==
    {<<>>} \cup {<<a>> : a \in NavLeaves} \cup {<<a, b>> : a \in NavItems, b \in NavItems}

NavGroupings == {Grouping(t, k) : t \in {"group", "collapse"}, k \in NavLeafLists}

\* A grouping node holding an item, a nested grouping node and another item
NavNested ==
    {Grouping(t, <<a, Grouping(u, <<x>>), b>>) :
        t \in {"group", "collapse"}, u \in {"group", "collapse"},
        a \in {ItemMail}, x \in NavItems, b \in {ItemSample}}

NavTrees ==
    {<<>>} \cup {<<n>> : n \in NavLeaves \cup NavGroupings \cup NavNested}
    \cup {<<g, a>> : g \in NavNested, a \in {ItemBlank}}

---------------------------------------------------------------------------
(* Specifications *)

InitSidebar ==
    /\ lockedOpen \in LockedOpenInputs
    /\ align \in {"left", "right"}
    /\ nextElementSibling \in BOOLEAN             \* the sidebar stands alone or between
    /\ previousElementSibling = nextElementSibling \* two elements of the layout
    /\ opened = FALSE
    /\ _folded = "undefined"
    /\ isLockedOpen = "undefined"
    /\ unfolded = "undefined"
    /\ _wasActive = "undefined"
    /\ _backdrop = NULL
    /\ _onMediaChangeSubscription = "undefined"
    /\ marginLeft = ""
    /\ marginRight = ""
    /\ attached = {}
    /\ created = 0
    /\ players = <<>>
    /\ registry = {}
    /\ lifecycle = "constructed"
    /\ error = "none"

InitMedia ==
    /\ mqAlias \in MediaAliases
    /\ activeMediaQuery = ""
    /\ onMediaChange = ""
    /\ emitted = <<>>

InitConfig(injections, platforms) ==
    /\ \E injected \in injections, mobile \in platforms :
          /\ defaultConfig = ConstructDefault(injected, mobile)
          /\ config = ConstructConfig(injected, mobile)
          /\ heap = ConstructHeap(injected, mobile)
    /\ configRef = defaultConfigRef + 3
    /\ onConfigChanged = config
    /\ observers = <<>>
    /\ subscribed = 0
    /\ delivered = <<>>
    /\ received = <<>>

InitNav ==
    /\ flatNavigation = <<>>
    /\ returned = <<>>
    /\ navCalls = <<>>

\* The sidebar, with the breakpoint notifier and the config flag it reads
Init ==
    /\ InitSidebar
    /\ InitMedia
    /\ InitConfig({<<>>}, {FALSE})
    /\ InitNav
    /\ lastOp = "constructor"

Next ==
    \/ NgOnInit
    \/ NgOnDestroy
    \/ Open
    \/ Close
    \/ ToggleOpen
    \/ Fold
    \/ Unfold
    \/ ToggleFold
    \/ \E value \in BOOLEAN : FoldedInput(value)
    \/ MouseEnter
    \/ MouseLeave
    \/ \E e \in attached : BackdropClick(e)
    \/ AnimationDone
    \/ \E alias \in MediaAliases : MediaChange(alias)
    \/ \E partial \in FoldPartials : SetConfig(partial)
    \/ NavigationStart

Spec == Init /\ [][Next]_vars

\* The config store alone
InitConfigStore ==
    /\ InitSidebar
    /\ lockedOpen = ""
    /\ align = "left"
    /\ nextElementSibling
    /\ previousElementSibling
    /\ InitMedia
    /\ mqAlias = "sm"
    /\ InitConfig(Injections, BOOLEAN)
    /\ InitNav
    /\ lastOp = "constructor"

NextConfigStore ==
    \/ \E partial \in Partials : SetConfig(partial)
    \/ NavigationStart

SpecConfig == InitConfigStore /\ [][NextConfigStore]_vars

\* The config store with subscribers to onConfigChanged
NextStream ==
    \/ \E partial \in StreamPartials : SetConfig(partial)
    \/ NavigationStart
    \/ Subscribe
    \/ \E o \in 1..MaxObservers : Unsubscribe(o)

SpecStream == InitConfigStore /\ [][NextStream]_vars

\* The navigation service alone
InitNavigation ==
    /\ InitSidebar
    /\ lockedOpen = ""
    /\ align = "left"
    /\ nextElementSibling
    /\ InitMedia
    /\ mqAlias = "sm"
    /\ InitConfig({<<>>}, {FALSE})
    /\ InitNav
    /\ lastOp = "constructor"

NextNavigation == \E navigation \in NavTrees : GetFlatNavigation(navigation)

SpecNav == InitNavigation /\ [][NextNavigation]_vars

---------------------------------------------------------------------------
(* The sidebar's states *)

Folded == Truthy(_folded)

Locked == Truthy(isLockedOpen)

NoMarginOverride == marginLeft = "" /\ marginRight = ""

Closed == ~opened /\ ~Locked /\ ~Folded

OpenPlain == opened /\ ~Locked /\ ~Folded

OpenFolded == opened /\ ~Locked /\ Folded

LockedOpenPlain == opened /\ Locked /\ ~Folded

LockedOpenFolded == opened /\ Locked /\ Folded

---------------------------------------------------------------------------
(* Claims *)

\* C1: in every reachable state the sidebar is in one of Closed, Open,
\* Open+Folded, LockedOpen, LockedOpen+Folded; a closed sidebar is never folded.
C1_StateSet ==
    /\ Closed \/ OpenPlain \/ OpenFolded \/ LockedOpenPlain \/ LockedOpenFolded
    /\ Folded => opened

\* C2: once no animation completion is pending, at most one backdrop element
\* is attached to the layout tree, and none is attached when the sidebar is
\* Closed or locked open.
C2_NoDanglingBackdrop ==
    players = <<>> =>
        /\ Cardinality(attached) <= 1
        /\ (~opened \/ Locked) => attached = {}

\* C3: when ngOnDestroy runs in a state with folded = true, the fold is
\* reverted: afterwards folded is false and no sibling margin override remains.
C3_TeardownRevertsFold ==
    [][(lifecycle = "initialized" /\ lifecycle' = "destroyed" /\ Folded)
          => (~Folded' /\ NoMarginOverride')]_vars

\* C4: whether or not a lockedOpen breakpoint was configured, ngOnDestroy
\* raises no error and ends with the sidebar unregistered and with no active
\* breakpoint subscription.
C4_TeardownCannotFail ==
    lastOp = "ngOnDestroy" =>
        /\ error = "none"
        /\ name \notin registry
        /\ _onMediaChangeSubscription # "active"

\* C5: the current config always contains every field of the default
\* configuration: the five layout fields, the three colorClasses fields,
\* customScrollbars and routerAnimation.
C5_FullyPopulated ==
    /\ TopKeys \subseteq DOMAIN config
    /\ LayoutKeys \subseteq DOMAIN config.layout
    /\ ColorKeys \subseteq DOMAIN config.colorClasses
    /\ (DOMAIN defaultConfig) \subseteq DOMAIN config
    /\ (DOMAIN defaultConfig.layout) \subseteq DOMAIN config.layout
    /\ (DOMAIN defaultConfig.colorClasses) \subseteq DOMAIN config.colorClasses

\* C5 witness: a partial update changed one layout field and the config is
\* still complete, with a sibling field at its default.
C5_Witness ==
    /\ lastOp = "setConfig"
    /\ config.layout.mode # defaultConfig.layout.mode
    /\ config.layout.navigation = defaultConfig.layout.navigation
    /\ DOMAIN config.layout = LayoutKeys

\* C6: a navigation-start event leaves every layout field equal to the stored
\* default's layout value, and colorClasses, customScrollbars and
\* routerAnimation as they were just before the event.
C6_NavigationStartResetsLayout ==
    [][lastOp' = "navigationStart" =>
          /\ \A k \in LayoutKeys : config'.layout[k] = defaultConfig.layout[k]
          /\ config'.colorClasses = config.colorClasses
          /\ config'.customScrollbars = config.customScrollbars
          /\ config'.routerAnimation = config.routerAnimation]_vars

\* C6 witness: after a navigation start the layout is the default's while
\* overrides of colorClasses, customScrollbars and routerAnimation are in place.
C6_Witness ==
    /\ lastOp = "navigationStart"
    /\ config.layout = defaultConfig.layout
    /\ config.colorClasses # defaultConfig.colorClasses
    /\ config.customScrollbars # defaultConfig.customScrollbars
    /\ config.routerAnimation # defaultConfig.routerAnimation

\* The callbacks one update makes: every current subscriber once, earlier
\* subscriptions first (subscribers are numbered in subscription order)
OneEach(d, subs, value) ==
    /\ Len(d) = Cardinality(subs)
    /\ \A i \in 1..Len(d) : d[i].to \in subs /\ d[i].value = value
    /\ \A i, j \in 1..Len(d) : i < j => d[i].to < d[j].to

\* C7: the value a new subscriber receives at once is the current config, and
\* every update is then delivered to every subscriber exactly once, in the
\* order the updates are applied and in subscription order among subscribers.
C7_ReplayLatestBroadcast ==
    /\ [](onConfigChanged = config)
    /\ [][/\ lastOp' = "subscribe" =>
                delivered' = Append(delivered, [to |-> subscribed + 1, value |-> config])
          /\ lastOp' \in {"setConfig", "navigationStart"} =>
                /\ Len(delivered') >= Len(delivered)
                /\ SubSeq(delivered', 1, Len(delivered)) = delivered
                /\ OneEach(SubSeq(delivered', Len(delivered) + 1, Len(delivered')),
                           {observers[i] : i \in 1..Len(observers)}, config')
          /\ lastOp' = "unsubscribe" => delivered' = delivered]_vars

\* C7 witness: two subscribers, and an update reached both after their replays.
C7_Witness ==
    /\ Len(observers) = 2
    /\ lastOp = "setConfig"
    /\ Len(delivered) >= 4
    /\ delivered[Len(delivered)].to = 2
    /\ delivered[Len(delivered) - 1].to = 1
    /\ delivered[Len(delivered)].value = config

\* A step in which the breakpoint callback activates lockedOpen
Activation == ~Truthy(_wasActive) /\ Truthy(_wasActive')

\* A step in which the breakpoint callback deactivates lockedOpen
Deactivation == Truthy(_wasActive) /\ _wasActive' = "false"

\* hideBackdrop() was applied: a leave animation starts on the tracked backdrop, if any
HideStarted ==
    players' = IF _backdrop = NULL THEN players ELSE Append(players, _backdrop)

\* C8 as stated: a breakpoint activation leaves isLockedOpen = true and
\* opened = true, the sidebar is folded afterwards if and only if
\* layout.navigationFolded is true at that moment, and the backdrop is hidden.
C8_ActivationFoldsIffConfig ==
    [][Activation =>
          /\ Truthy(isLockedOpen') /\ opened'
          /\ Folded' <=> config.layout.navigationFolded
          /\ HideStarted]_vars

\* C8 as amended: as above, but the sidebar is folded afterwards if and only
\* if layout.navigationFolded is true at that moment or the sidebar was
\* already folded before the activation.
C8_ActivationFoldsIfConfig ==
    [][Activation =>
          /\ Truthy(isLockedOpen') /\ opened'
          /\ Folded' <=> (config.layout.navigationFolded \/ Folded)
          /\ HideStarted]_vars

\* C8 witness: the callback has just activated lockedOpen and folded the
\* sidebar, whose backdrop is fading out.
C8_Witness ==
    /\ lastOp = "onMediaChange"
    /\ Truthy(_wasActive) /\ Locked /\ opened /\ Folded
    /\ config.layout.navigationFolded
    /\ _backdrop # NULL
    /\ players # <<>>

\* C9: a breakpoint deactivation ends in the plain Closed state:
\* isLockedOpen = false, folded = false with the sibling margin override
\* removed, and opened = false.
C9_DeactivationCloses ==
    [][Deactivation =>
          /\ isLockedOpen' = "false"
          /\ ~Folded'
          /\ NoMarginOverride'
          /\ ~opened']_vars

\* C9 witness: the callback has just deactivated lockedOpen on a sidebar whose
\* fold state had been set, and the sidebar is closed and unfolded.
C9_Witness ==
    /\ lastOp = "onMediaChange"
    /\ _wasActive = "false"
    /\ _folded = "false"
    /\ nextElementSibling
    /\ Closed

\* C10: while isLockedOpen = true, open(), close() and toggleOpen() leave
\* opened, folded, isLockedOpen and the backdrop unchanged: no element is
\* created and no hide is started.
C10_LockedSuppressesManual ==
    [][(Locked /\ lastOp' \in {"open", "close", "toggleOpen"}) =>
          UNCHANGED <<opened, _folded, isLockedOpen, _backdrop, attached, created, players>>]_vars

\* C10 witness: a manual call has just been made on a locked-open sidebar.
C10_Witness ==
    /\ Locked
    /\ lastOp \in {"open", "close", "toggleOpen"}

\* C11 (as stated): when not locked open, open() on a Closed sidebar moves it
\* to Open and attaches one new backdrop; open() on an open sidebar and close()
\* on a Closed one change nothing; close() on an open sidebar moves it to Closed
\* and starts hiding the tracked backdrop, and the completion of a fade-out
\* removes from the layout tree the element that fade-out was started on.
C11_ManualOpenClose ==
    [][/\ (lastOp' = "open" /\ Closed) =>
              /\ OpenPlain'
              /\ _backdrop' \notin attached
              /\ attached' = attached \cup {_backdrop'}
       /\ (lastOp' = "open" /\ opened /\ ~Locked) => UNCHANGED sidebarVars
       /\ (lastOp' = "close" /\ opened /\ ~Locked) =>
              /\ Closed'
              /\ _backdrop # NULL
              /\ players' = Append(players, _backdrop)
       /\ (lastOp' = "close" /\ Closed) => UNCHANGED sidebarVars
       /\ lastOp' = "onDone" => Head(players) \notin attached']_vars

\* A step in which the breakpoint callback runs and the active status it
\* computes equals the status recorded at the previous check
RedundantNotification ==
    /\ lastOp' = "onMediaChange"
    /\ _wasActive = JSBool(isActive(lockedOpen, mqAlias'))

\* C12: a breakpoint notification whose computed active status equals the
\* recorded one leaves opened, folded, isLockedOpen, unfolded, the sibling
\* margin and the backdrop unchanged.
C12_RedundantNotificationNoTransition ==
    [][RedundantNotification =>
          UNCHANGED <<opened, _folded, isLockedOpen, unfolded, _wasActive,
                      marginLeft, marginRight, _backdrop, attached, created, players>>]_vars

\* C12 witness: the callback ran last on a locked-open sidebar that is not
\* folded although navigationFolded is set, so the run was not an activation
\* (which would have folded it) nor a deactivation: it was a redundant one.
C12_Witness ==
    /\ lastOp = "onMediaChange"
    /\ Locked /\ Truthy(_wasActive)
    /\ config.layout.navigationFolded
    /\ ~Folded

\* C13: while opened = false, fold(), unfold(), toggleFold() and assigning
\* folded leave folded and the sibling's margin unchanged.
C13_FoldNoOpWhenClosed ==
    [][(~opened /\ lastOp' \in {"fold", "unfold", "toggleFold", "setFolded"}) =>
          UNCHANGED <<_folded, marginLeft, marginRight>>]_vars

\* C13 witness: a fold operation has just been called on a sidebar that is
\* not open (these operations never change opened).
C13_Witness ==
    /\ ~opened
    /\ lastOp \in {"fold", "toggleFold", "setFolded"}
    /\ ~Folded

\* C14: in every reachable state of a live sidebar, unfolded = true implies
\* folded = true.
C14_HoverUnfoldedImpliesFolded ==
    lifecycle = "initialized" => (Truthy(unfolded) => Folded)

\* C15: onMouseEnter and onMouseLeave never change folded, opened,
\* isLockedOpen or the sibling margin; while folded, onMouseEnter sets
\* unfolded = true and onMouseLeave sets unfolded = false; while not folded
\* both leave unfolded unchanged.
C15_HoverKeepsPersistentState ==
    [][lastOp' \in {"onMouseEnter", "onMouseLeave"} =>
          /\ UNCHANGED <<_folded, opened, isLockedOpen, marginLeft, marginRight>>
          /\ (Folded /\ lastOp' = "onMouseEnter") => unfolded' = "true"
          /\ (Folded /\ lastOp' = "onMouseLeave") => unfolded' = "false"
          /\ ~Folded => unfolded' = unfolded]_vars

\* C15 witness: the pointer has just entered a folded sidebar, which shows the
\* hover-unfolded appearance and is still folded, with its sibling's margin.
C15_Witness ==
    /\ lastOp = "onMouseEnter"
    /\ Folded
    /\ unfolded = "true"
    /\ align = "left" /\ marginLeft = "64px"

\* C19: for a sidebar whose adjacent sibling exists, the 64px margin override
\* (marginLeft of the next sibling if left-aligned, marginRight of the previous
\* sibling if right-aligned) is present if and only if folded = true; the
\* sibling on the other side never gets an override.
C19_MarginTracksFold ==
    /\ (align = "left" /\ nextElementSibling) =>
           /\ marginLeft = "64px" <=> Folded
           /\ marginLeft \in {"", "64px"} /\ marginRight = ""
    /\ (align = "right" /\ previousElementSibling) =>
           /\ marginRight = "64px" <=> Folded
           /\ marginRight \in {"", "64px"} /\ marginLeft = ""

\* C19 witness: a right-aligned sidebar was folded and then unfolded: the
\* override on its previous sibling is gone again.
C19_Witness ==
    /\ align = "right" /\ previousElementSibling
    /\ lastOp = "unfold"
    /\ _folded = "false"
    /\ marginRight = ""

\* C20: the completion of a hide animation detaches no element but the one
\* that animation was started on; and whenever the sidebar is Open, not locked
\* open and no completion is pending, the tracked backdrop is non-null and
\* attached.
C20_HideRemovesItsOwnBackdrop ==
    /\ [][lastOp' = "onDone" => (attached \ attached') \subseteq {Head(players)}]_vars
    /\ []((opened /\ ~Locked /\ players = <<>>) =>
              (_backdrop # NULL /\ _backdrop \in attached))

\* The keys a partial supplies in subsection sec
Supplied(partial, sec) == IF sec \in DOMAIN partial THEN DOMAIN partial[sec] ELSE {}

\* The merge the prose describes, key by key
ReferenceMerge(cfg, partial) ==
    [k \in (DOMAIN cfg) \cup (DOMAIN partial) \cup {"layout", "colorClasses"} |->
        IF k \in {"layout", "colorClasses"}
        THEN [j \in (DOMAIN cfg[k]) \cup Supplied(partial, k) |->
                 IF j \in Supplied(partial, k) THEN partial[k][j] ELSE cfg[k][j]]
        ELSE IF k \in DOMAIN partial THEN partial[k] ELSE cfg[k]]

\* C16: for the current config and every partial, the config setConfig
\* installs equals the reference merge: each key of layout and of colorClasses
\* takes the partial's value when the partial supplies that key in that
\* subsection and the previous value otherwise, every other top-level key takes
\* the partial's value when supplied and the previous value otherwise.
C16_SetConfigIsReferenceMerge ==
    \A partial \in Partials : setConfig(config, partial) = ReferenceMerge(config, partial)

\* C16 witness: updates of a layout key, of a colorClasses key and of a
\* top-level key have been merged one after the other, each keeping the others.
C16_Witness ==
    /\ lastOp = "setConfig"
    /\ config.layout.toolbar # defaultConfig.layout.toolbar
    /\ config.layout.footer = defaultConfig.layout.footer
    /\ config.colorClasses.navbar # defaultConfig.colorClasses.navbar
    /\ config.colorClasses.footer = defaultConfig.colorClasses.footer
    /\ config.routerAnimation # defaultConfig.routerAnimation

\* The records of the nodes typed 'item' of a navigation, depth first and left
\* to right, looking into the children of 'collapse' and 'group' nodes only
RECURSIVE ItemsInOrder(_)
ItemsInOrder(navigation) ==
    IF navigation = <<>> THEN <<>>
    ELSE LET node == Head(navigation)
             own == IF node.type = "item"
                    THEN <<[title |-> node.title, type |-> "item", url |-> node.url,
                            icon |-> IF "icon" \in DOMAIN node /\ node.icon # ""
                                     THEN node.icon ELSE "false"]>>
                    ELSE IF node.type \in {"collapse", "group"} /\ "children" \in DOMAIN node
                         THEN ItemsInOrder(node.children)
                         ELSE <<>>
         IN  own \o ItemsInOrder(Tail(navigation))

\* The flattenings of the first n arguments, one after the other
RECURSIVE ItemsOfCalls(_, _)
ItemsOfCalls(calls, n) ==
    IF n = 0 THEN <<>> ELSE ItemsOfCalls(calls, n - 1) \o ItemsInOrder(calls[n])

\* C17: on a fresh service instance getFlatNavigation(tree) returns exactly
\* the {title, type, icon, url} records of the nodes typed 'item', depth first
\* and left to right, recursing into the children of every 'collapse' and
\* 'group' node, skipping grouping nodes without children, with icon = false
\* for items that carry no icon.
C17_FlattenFresh ==
    Len(navCalls) = 1 => returned = ItemsInOrder(navCalls[1])

\* C17 witness: the first call was made with a group holding the item
\* 'Sample' without icon, and returned that one record with icon = false.
C17_Witness ==
    /\ navCalls = << <<Grouping("group", <<ItemSample>>)>> >>
    /\ returned = <<[title |-> "Sample", type |-> "item", icon |-> "false", url |-> "/sample"]>>

\* C18: the n-th call on one service instance returns the concatenation of
\* the flattenings of all n trees passed so far, in call order, and no call
\* removes or reorders earlier entries.
C18_AccumulatorPersists ==
    /\ [](/\ returned = ItemsOfCalls(navCalls, Len(navCalls))
          /\ flatNavigation = returned)
    /\ [][/\ Len(flatNavigation') >= Len(flatNavigation)
          /\ SubSeq(flatNavigation', 1, Len(flatNavigation)) = flatNavigation]_vars

\* C18 witness: two calls with the same tree of two items returned every
\* entry twice.
C18_Witness ==
    /\ Len(navCalls) = 2
    /\ navCalls[1] = navCalls[2]
    /\ Len(ItemsInOrder(navCalls[1])) = 2
    /\ Len(returned) = 4
    /\ returned[1] = returned[3] /\ returned[2] = returned[4]
    /\ returned[1] # returned[2]

\* C21: in every reachable state a locked-open sidebar is open, and
\* isLockedOpen equals the active status recorded at the last breakpoint
\* check (_wasActive), which while the subscription lives is the status of
\* the lockedOpen query under the breakpoint ObservableMedia reports; a
\* sidebar configured without a lockedOpen breakpoint is never locked open.
C21_LockedImpliesOpen ==
    /\ Locked => opened
    /\ Locked <=> Truthy(_wasActive)
    /\ _onMediaChangeSubscription = "active" => (Locked <=> isActive(lockedOpen, mqAlias))
    /\ lockedOpen = "" => ~Locked

\* C21 witness: close() was called on a sidebar locked open by its
\* breakpoint; it is still open and locked.
C21_Witness ==
    /\ lastOp = "close"
    /\ lockedOpen # ""
    /\ Locked /\ opened /\ Truthy(_wasActive)

\* An update of the config: a setConfig call or a navigation-start event
ConfigUpdate == lastOp' \in {"setConfig", "navigationStart"}

\* C22: no setConfig call and no navigation-start event modifies
\* defaultConfig (its layout included) or a config object delivered to a
\* subscriber before; each update installs a new config object, one that shares
\* no object with the default or with a delivered config; so every
\* navigation-start restores the layout values the default had from the start.
C22_DefaultNeverChanged ==
    /\ [](/\ defaultConfig = Deref(heap, defaultConfigRef)
          /\ config = Deref(heap, configRef)
          /\ \A i \in 1..Len(received) : Deref(heap, received[i]) = delivered[i].value)
    /\ [][/\ defaultConfig' = defaultConfig
          /\ \A id \in Reach(heap, Held) : id \in DOMAIN heap' /\ heap'[id] = heap[id]
          /\ ConfigUpdate =>
                /\ Reach(heap', {configRef'}) \cap Reach(heap, Held) = {}
                /\ lastOp' = "navigationStart" => config'.layout = defaultConfig.layout]_vars

\* C22 witness: a subscriber holds the constructor's config and a later one;
\* after a setConfig call that changed the layout, a navigation-start
\* restored the default's layout values into an object of its own.
C22_Witness ==
    /\ lastOp = "navigationStart"
    /\ Len(received) >= 2
    /\ received[1] # configRef /\ received[2] # received[1]
    /\ delivered[2].value.layout # defaultConfig.layout
    /\ heap[received[1]].layout = heap[defaultConfigRef].layout
    /\ config.layout = defaultConfig.layout
    /\ heap[configRef].layout # heap[defaultConfigRef].layout

\* C23: in every reachable state with opened = true, toggleFold() called
\* twice in a row restores the folded value and the sibling margins, and one
\* toggleFold() flips folded; fold() on a folded sidebar and unfold() on an
\* unfolded one change nothing.
C23_ToggleFoldRoundTrip ==
    /\ [](/\ opened =>
                LET once == toggleFold(Self)
                    twice == toggleFold(once)
                IN  /\ Truthy(once._folded) # Folded
                    /\ Truthy(twice._folded) = Folded
                    /\ twice.marginLeft = marginLeft
                    /\ twice.marginRight = marginRight
                    /\ [twice EXCEPT !._folded = _folded] = Self
          /\ Folded => fold(Self) = Self
          /\ ~Folded => unfold(Self) = Self)
    /\ [][/\ (lastOp' = "toggleFold" /\ opened) => (Folded' # Folded)
          /\ (lastOp' = "fold" /\ Folded) => UNCHANGED sidebarVars
          /\ (lastOp' = "unfold" /\ ~Folded) => UNCHANGED sidebarVars]_vars

\* C23 witness: toggleFold() has just unfolded an open sidebar that had been
\* folded, and removed the margin of the sibling.
C23_Witness ==
    /\ lastOp = "toggleFold"
    /\ opened
    /\ _folded = "false"
    /\ align = "left" /\ nextElementSibling
    /\ marginLeft = ""
    /\ toggleFold(Self).marginLeft = "64px"

\* A step in which ObservableMedia reported a breakpoint to the service
MediaChanged == lastOp' \in {"mediaChange", "onMediaChange"}

\* C24: onMediaChange never emits the same breakpoint alias twice in a row
\* after its initial empty string; a media change emits exactly when the
\* incoming alias differs from activeMediaQuery, and what it emits is that
\* alias; activeMediaQuery always equals the last emitted alias (the empty
\* string before any).
C24_NotifierDeduplicates ==
    /\ [](activeMediaQuery = onMediaChange)
    /\ [][MediaChanged =>
            /\ emitted' # <<>> <=> mqAlias' # activeMediaQuery
            /\ emitted' # <<>> =>
                  /\ emitted' = <<mqAlias'>>
                  /\ emitted'[1] # onMediaChange
                  /\ onMediaChange' = emitted'[1]
            /\ emitted' = <<>> => onMediaChange' = onMediaChange]_vars

\* C24 witness: ObservableMedia reported the breakpoint it had reported
\* before, and nothing was emitted.
C24_Witness ==
    /\ lastOp = "mediaChange"
    /\ emitted = <<>>
    /\ mqAlias \in MediaAliases
    /\ activeMediaQuery = mqAlias
    /\ onMediaChange = mqAlias

=============================================================================
